---- MODULE Spec2Model ----
(***************************************************************************)
(* A model of annual_engine.py: the duration parser (NiceRecord), the      *)
(* record aggregator (summarize_nice_records), the rule catalog            *)
(* (RULE_PROFILES), the entitlement evaluator (suggest_annual_days), the   *)
(* wage and payout calculator (calc_daily_wage, drop_to_10won) and the     *)
(* orchestrator (full_pipeline).                                           *)
(*                                                                         *)
(* Python values are records [k, ...]: k is the Python type ("int",        *)
(* "float", "str", "None") or the name of a raised exception. A float is   *)
(* an IEEE 754 double and its arithmetic rounds to the nearest double, as  *)
(* the interpreter's does.                                                 *)
(* Duration strings are sequences of characters; the Korean unit markers   *)
(* are written in romanised form: "il" (day), "si" "gan" (hour, a          *)
(* two-character marker) and "bun" (minute).                               *)
(***************************************************************************)
EXTENDS Integers, Sequences, FiniteSets, TLC

VARIABLES RULE_PROFILES, call, ret, pc, frame

vars == <<RULE_PROFILES, call, ret, pc, frame>>

(***************************************************************************)
(* Natural numbers of any size: the sequence of the limbs (digits in base  *)
(* 2^15), least significant first, without leading zero limbs; <<>> is 0.  *)
(***************************************************************************)
Base == 32768

LimbBits == 15

\* the single element of a singleton set. Python evaluates an operand or an
\* argument once and binds the value: {e(x) : x \in {arg}} does the same
The(S) == CHOOSE r \in S : TRUE

Abs(x) == IF x < 0 THEN -x ELSE x

Max(a, b) == IF a < b THEN b ELSE a

Min(a, b) == IF b < a THEN b ELSE a

Lo(x) == IF x = <<>> THEN 0 ELSE x[1]

Rest(x) == IF x = <<>> THEN <<>> ELSE Tail(x)

RECURSIVE Zeros(_)
Zeros(n) == IF n <= 0 THEN <<>> ELSE <<0>> \o Zeros(n - 1)

RECURSIVE Trim(_)
Trim(x0) ==
  The({IF x = <<>> THEN x
       ELSE IF x[Len(x)] # 0 THEN x
       ELSE Trim(SubSeq(x, 1, Len(x) - 1)) : x \in {x0}})

RECURSIVE Limbs(_)
Limbs(n0) ==
  The({IF n = 0 THEN <<>> ELSE <<n % Base>> \o Limbs(n \div Base)
       : n \in {n0}})

RECURSIVE IntOfLimbs(_)
IntOfLimbs(x0) ==
  The({IF x = <<>> THEN 0 ELSE x[1] + Base * IntOfLimbs(Tail(x))
       : x \in {x0}})

\* x + y + c
RECURSIVE AddC(_, _, _)
AddC(x0, y0, c0) ==
  The({IF y = <<>> /\ c = 0 THEN x
       ELSE IF x = <<>> /\ c = 0 THEN y
       ELSE The({<<t % Base>> \o AddC(Rest(x), Rest(y), t \div Base)
                 : t \in {Lo(x) + Lo(y) + c}})
       : x \in {x0}, y \in {y0}, c \in {c0}})

BAdd(x, y) == AddC(x, y, 0)

\* x - y - b, for x >= y + b; the leading limbs may be zero
RECURSIVE SubB(_, _, _)
SubB(x0, y0, b0) ==
  The({IF y = <<>> /\ b = 0 THEN x
       ELSE The({<<(t + Base) % Base>>
                   \o SubB(Rest(x), Rest(y), IF t < 0 THEN 1 ELSE 0)
                 : t \in {Lo(x) - Lo(y) - b}})
       : x \in {x0}, y \in {y0}, b \in {b0}})

BSub(x, y) == Trim(SubB(x, y, 0))

\* -1, 0 or 1 as x is less than, equal to or greater than y
BCmp(x0, y0) ==
  The({IF Len(x) # Len(y) THEN (IF Len(x) < Len(y) THEN -1 ELSE 1)
       ELSE The({IF diff = {} THEN 0
                 ELSE The({IF x[i] < y[i] THEN -1 ELSE 1
                           : i \in {CHOOSE i \in diff :
                                      \A j \in diff : j <= i}})
                 : diff \in {{i \in 1..Len(x) : x[i] # y[i]}}})
       : x \in {x0}, y \in {y0}})

\* x * k + c for a limb k > 0 and a carry c
RECURSIVE MulC(_, _, _)
MulC(x0, k0, c0) ==
  The({IF x = <<>> THEN (IF c = 0 THEN <<>> ELSE <<c>>)
       ELSE The({<<t % Base>> \o MulC(Tail(x), k, t \div Base)
                 : t \in {x[1] * k + c}})
       : x \in {x0}, k \in {k0}, c \in {c0}})

BMulSmall(x, k) == IF k = 0 THEN <<>> ELSE MulC(x, k, 0)

RECURSIVE BMul(_, _)
BMul(x0, y0) ==
  The({IF x = <<>> \/ y = <<>> THEN <<>>
       ELSE The({AddC(BMulSmall(x, y[1]),
                      IF hi = <<>> THEN <<>> ELSE <<0>> \o hi, 0)
                 : hi \in {BMul(x, Tail(y))}})
       : x \in {x0}, y \in {y0}})

\* the number of bits of a limb
BitLenInt(n) ==
  CHOOSE b \in 0..LimbBits : n < 2^b /\ (b = 0 \/ 2^(b - 1) <= n)

BitLen(x0) ==
  The({IF x = <<>> THEN 0
       ELSE LimbBits * (Len(x) - 1) + BitLenInt(x[Len(x)]) : x \in {x0}})

\* x * 2^k
Shl(x0, k0) ==
  The({IF x = <<>> THEN <<>>
       ELSE Zeros(k \div LimbBits) \o MulC(x, 2^(k % LimbBits), 0)
       : x \in {x0}, k \in {k0}})

\* floor(x / 2^r) for 0 <= r < 15; the leading limb may be zero
RECURSIVE ShrBits(_, _)
ShrBits(x0, r0) ==
  The({IF x = <<>> THEN <<>>
       ELSE <<(x[1] \div 2^r)
              + (IF Len(x) > 1 THEN (x[2] % 2^r) * 2^(LimbBits - r) ELSE 0)>>
            \o ShrBits(Tail(x), r)
       : x \in {x0}, r \in {r0}})

\* floor(x / 2^k)
Shr(x0, k0) ==
  The({IF k \div LimbBits >= Len(x) THEN <<>>
       ELSE Trim(ShrBits(SubSeq(x, k \div LimbBits + 1, Len(x)),
                         k % LimbBits))
       : x \in {x0}, k \in {k0}})

\* the greatest q <= q0 with d * q <= r
RECURSIVE FixDown(_, _, _)
FixDown(r0, d0, q0) ==
  The({IF BCmp(MulC(d, q, 0), r) > 0 THEN FixDown(r, d, q - 1) ELSE q
       : r \in {r0}, d \in {d0}, q \in {q0}})

\* floor(r / d) for r < d * Base and d with the top bit of its top limb set:
\* the estimate from the leading limbs is at most 2 too large
QuotLimb(r0, d0) ==
  The({IF BCmp(r, d) < 0 THEN 0
       ELSE FixDown(r, d,
              Min(Base - 1,
                  ((IF Len(r) > Len(d) THEN r[Len(d) + 1] ELSE 0) * Base
                   + r[Len(d)]) \div d[Len(d)]))
       : r \in {r0}, d \in {d0}})

\* long division, most significant limb first: quotient q and remainder r
RECURSIVE LongDiv(_, _)
LongDiv(x0, d0) ==
  The({IF x = <<>> THEN [q |-> <<>>, r |-> <<>>]
       ELSE The({
         The({
           The({[q |-> IF ql = 0 /\ hi.q = <<>> THEN <<>>
                       ELSE <<ql>> \o hi.q,
                 r |-> BSub(r, BMulSmall(d, ql))]
                : ql \in {QuotLimb(r, d)}})
           : r \in {IF hi.r = <<>>
                    THEN (IF x[1] = 0 THEN <<>> ELSE <<x[1]>>)
                    ELSE <<x[1]>> \o hi.r}})
         : hi \in {LongDiv(Tail(x), d)}})
       : x \in {x0}, d \in {d0}})

\* x divided by d # 0: quotient q and remainder r
BDivMod(x0, d0) ==
  The({The({The({[q |-> res.q, r |-> Shr(res.r, s)]
                 : res \in {LongDiv(Shl(x, s), Shl(d, s))}})
            : s \in {LimbBits - BitLenInt(d[Len(d)])}})
       : x \in {x0}, d \in {d0}})

\* the number of trailing zero bits of x # 0
TrailingZeros(x0) ==
  The({The({LimbBits * (z - 1)
            + (CHOOSE b \in 0..(LimbBits - 1) :
                 x[z] % 2^b = 0 /\ x[z] % 2^(b + 1) # 0)
            : z \in {CHOOSE i \in 1..Len(x) :
                       x[i] # 0 /\ \A j \in 1..(i - 1) : x[j] = 0}})
       : x \in {x0}})

\* x / 2^sh (sh >= 1) rounded to the nearest integer, ties to even; sticky
\* says that the number rounded is a little more than x
HalfEvenShift(x0, sh0, sticky) ==
  The({The({The({IF Lo(q1) % 2 = 1
                    /\ (sticky \/ Lo(q) % 2 = 1 \/ Shl(q1, sh - 1) # x)
                 THEN AddC(q, <<>>, 1) ELSE q
                 : q \in {Shr(q1, 1)}})
            : q1 \in {Shr(x, sh - 1)}})
       : x \in {x0}, sh \in {sh0}})

(***************************************************************************)
(* Python values. An int is [k |-> "int", n]; a float is the IEEE 754      *)
(* double [k |-> "float", s, m, e] of value s * m * 2^e with the sign s    *)
(* (1 or -1), m odd (or 0 with e = 0) and m < 2^53; a str is the text      *)
(* "abc" repeated n times; an exception in flight is [k |-> its name].     *)
(* The magnitudes stay within the range of the normal doubles.             *)
(***************************************************************************)
MantBits == 53

PyInt(n) == [k |-> "int", n |-> n]

PyStr(n) == [k |-> "str", n |-> n]

PyNone == [k |-> "None", n |-> 0]

PyExc(e) == [k |-> e, n |-> 0]

Exceptions == {"TypeError", "ValueError", "ZeroDivisionError", "KeyError"}

IsExc(v) == v.k \in Exceptions

IsNum(v) == v.k \in {"int", "float"}

\* the number s * x * 2^e0, exactly: a float when x has at most 53 bits
Exact(s, x0, e0) ==
  The({IF x = <<>> THEN [k |-> "float", s |-> s, m |-> <<>>, e |-> 0]
       ELSE The({[k |-> "float", s |-> s, m |-> Shr(x, tz), e |-> e0 + tz]
                 : tz \in {TrailingZeros(x)}})
       : x \in {x0}})

\* the float nearest to s * (x + sticky) * 2^e0, ties to even
Nearest(s, x0, e0, sticky) ==
  The({The({IF len <= MantBits THEN Exact(s, x, e0)
            ELSE Exact(s, HalfEvenShift(x, len - MantBits, sticky),
                       e0 + len - MantBits)
            : len \in {BitLen(x)}})
       : x \in {x0}})

\* the float nearest to s * (n / d) * 2^e0
NearestRatio(s, n0, d0, e0) ==
  The({IF n = <<>> THEN Exact(s, <<>>, 0)
       ELSE The({The({Nearest(s, qr.q, e0 - k, qr.r # <<>>)
                      : qr \in {BDivMod(Shl(n, k), d)}})
                 : k \in {Max(0, MantBits + 2 + BitLen(d) - BitLen(n))}})
       : n \in {n0}, d \in {d0}})

\* the float written n/d
PyFloat(n, d) ==
  NearestRatio(IF (n < 0) = (d < 0) THEN 1 ELSE -1,
               Limbs(Abs(n)), Limbs(Abs(d)), 0)

\* float(v) of a number
ToFloat(v) ==
  IF v.k = "int" THEN Exact(IF v.n < 0 THEN -1 ELSE 1, Limbs(Abs(v.n)), 0)
  ELSE v

Neg(a) == [k |-> "float", s |-> -a.s, m |-> a.m, e |-> a.e]

\* a + b of floats, exactly
ExactAdd(a0, b0) ==
  The({The({The({IF a.s = b.s THEN Exact(a.s, BAdd(x, y), e)
                 ELSE The({IF c = 0 THEN Exact(1, <<>>, 0)
                           ELSE IF c > 0 THEN Exact(a.s, BSub(x, y), e)
                           ELSE Exact(b.s, BSub(y, x), e)
                           : c \in {BCmp(x, y)}})
                 : x \in {Shl(a.m, a.e - e)}, y \in {Shl(b.m, b.e - e)}})
            : e \in {Min(a.e, b.e)}})
       : a \in {a0}, b \in {b0}})

ExactSub(a, b) == ExactAdd(a, Neg(b))

ExactMul(a0, b0) ==
  The({Exact(a.s * b.s, BMul(a.m, b.m), a.e + b.e) : a \in {a0}, b \in {b0}})

\* the float nearest to an exact number
Rounded(v0) == The({Nearest(v.s, v.m, v.e, FALSE) : v \in {v0}})

FloatAdd(a, b) == Rounded(ExactAdd(a, b))

FloatSub(a, b) == Rounded(ExactSub(a, b))

FloatMul(a, b) == Rounded(ExactMul(a, b))

\* a / b for b # 0
FloatDiv(a0, b0) ==
  The({NearestRatio(a.s * b.s, a.m, b.m, a.e - b.e) : a \in {a0}, b \in {b0}})

\* -1, 0 or 1 as a is less than, equal to or greater than b
FloatCmp(a0, b0) ==
  The({IF d.m = <<>> THEN 0 ELSE d.s : d \in {ExactSub(a0, b0)}})

\* floor(a)
FloatFloor(a0) ==
  The({IF a.e >= 0 THEN a
       ELSE IF a.s = 1 THEN Exact(1, Shr(a.m, -a.e), 0)
       ELSE Exact(-1, AddC(Shr(a.m, -a.e), <<>>, 1), 0) : a \in {a0}})

\* fmod(a, b) for b # 0: the remainder of |a| by |b|, with the sign of a
FloatMod(a0, b0) ==
  The({The({Exact(a.s, BDivMod(Shl(a.m, a.e - e), Shl(b.m, b.e - e)).r, e)
            : e \in {Min(a.e, b.e)}})
       : a \in {a0}, b \in {b0}})

FloatOne == Exact(1, <<1>>, 0)

FloatHalf == Exact(1, <<1>>, -1)

\* a // b of floats, b # 0, as float_floor_div computes it
FloatFloorDiv(a0, b0) ==
  The({The({The({The({
         IF div.m = <<>> THEN Exact(a.s * b.s, <<>>, 0)
         ELSE The({IF FloatCmp(FloatSub(div, fl), FloatHalf) > 0
                   THEN FloatAdd(fl, FloatOne) ELSE fl
                   : fl \in {FloatFloor(div)}})
         : div \in {IF mod.m # <<>> /\ mod.s # b.s
                    THEN FloatSub(div0, FloatOne) ELSE div0}})
         : div0 \in {FloatDiv(FloatSub(a, mod), b)}})
       : mod \in {FloatMod(a, b)}})
       : a \in {a0}, b \in {b0}})

\* the integer nearest to a float, ties to even
FloatRound(a0) ==
  The({a.s * IntOfLimbs(IF a.e >= 0 THEN Shl(a.m, a.e)
                        ELSE HalfEvenShift(a.m, -a.e, FALSE)) : a \in {a0}})

\* the integer part of a float
FloatTrunc(a0) ==
  The({a.s * IntOfLimbs(IF a.e >= 0 THEN Shl(a.m, a.e) ELSE Shr(a.m, -a.e))
       : a \in {a0}})

\* round(a, 1) of a float: the decimal with one digit after the point that
\* is nearest to a (ties to even), read back as a float
FloatRound1(a0) ==
  The({IF a.e >= 0 THEN a
       ELSE NearestRatio(a.s, HalfEvenShift(BMulSmall(a.m, 10), -a.e, FALSE),
                         <<10>>, 0) : a \in {a0}})

NumCmp(a, b) ==
  IF a.k = "int" /\ b.k = "int"
  THEN (IF a.n < b.n THEN -1 ELSE IF a.n = b.n THEN 0 ELSE 1)
  ELSE FloatCmp(ToFloat(a), ToFloat(b))

NumEq(a, b) == NumCmp(a, b) = 0

NumLt(a, b) == NumCmp(a, b) < 0

NumLe(a, b) == NumCmp(a, b) <= 0

PyAdd(a0, b0) ==
  The({IF IsExc(a) THEN a ELSE IF IsExc(b) THEN b
       ELSE IF a.k = "int" /\ b.k = "int" THEN PyInt(a.n + b.n)
       ELSE IF IsNum(a) /\ IsNum(b) THEN FloatAdd(ToFloat(a), ToFloat(b))
       ELSE IF a.k = "str" /\ b.k = "str" THEN PyStr(a.n + b.n)
       ELSE PyExc("TypeError") : a \in {a0}, b \in {b0}})

PySub(a0, b0) ==
  The({IF IsExc(a) THEN a ELSE IF IsExc(b) THEN b
       ELSE IF a.k = "int" /\ b.k = "int" THEN PyInt(a.n - b.n)
       ELSE IF IsNum(a) /\ IsNum(b) THEN FloatSub(ToFloat(a), ToFloat(b))
       ELSE PyExc("TypeError") : a \in {a0}, b \in {b0}})

PyMul(a0, b0) ==
  The({IF IsExc(a) THEN a ELSE IF IsExc(b) THEN b
       ELSE IF a.k = "int" /\ b.k = "int" THEN PyInt(a.n * b.n)
       ELSE IF IsNum(a) /\ IsNum(b) THEN FloatMul(ToFloat(a), ToFloat(b))
       ELSE IF a.k = "str" /\ b.k = "int"
            THEN PyStr(IF b.n < 0 THEN 0 ELSE a.n * b.n)
       ELSE IF a.k = "int" /\ b.k = "str"
            THEN PyStr(IF a.n < 0 THEN 0 ELSE a.n * b.n)
       ELSE PyExc("TypeError") : a \in {a0}, b \in {b0}})

IsZero(v) == IF v.k = "int" THEN v.n = 0 ELSE v.m = <<>>

PyTrueDiv(a0, b0) ==
  The({IF IsExc(a) THEN a ELSE IF IsExc(b) THEN b
       ELSE IF ~(IsNum(a) /\ IsNum(b)) THEN PyExc("TypeError")
       ELSE IF IsZero(b) THEN PyExc("ZeroDivisionError")
       ELSE FloatDiv(ToFloat(a), ToFloat(b)) : a \in {a0}, b \in {b0}})

\* floor(n / d) of integers, d # 0
Floor(n, d) == IF d < 0 THEN (-n) \div (-d) ELSE n \div d

PyFloorDiv(a0, b0) ==
  The({IF IsExc(a) THEN a ELSE IF IsExc(b) THEN b
       ELSE IF ~(IsNum(a) /\ IsNum(b)) THEN PyExc("TypeError")
       ELSE IF IsZero(b) THEN PyExc("ZeroDivisionError")
       ELSE IF a.k = "int" /\ b.k = "int" THEN PyInt(Floor(a.n, b.n))
       ELSE FloatFloorDiv(ToFloat(a), ToFloat(b)) : a \in {a0}, b \in {b0}})

\* a < b as 1 or 0; a comparison of a number with a str or None raises
\* TypeError
PyLt(a0, b0) ==
  The({IF IsExc(a) THEN a ELSE IF IsExc(b) THEN b
       ELSE IF IsNum(a) /\ IsNum(b)
            THEN (IF NumLt(a, b) THEN PyInt(1) ELSE PyInt(0))
       ELSE PyExc("TypeError") : a \in {a0}, b \in {b0}})

\* max(a, b): the first argument unless the second is greater
PyMax(a0, b0) ==
  The({The({IF IsExc(c) THEN c ELSE IF c.n = 1 THEN b ELSE a
            : c \in {PyLt(a, b)}})
       : a \in {a0}, b \in {b0}})

\* min(a, b): the first argument unless the second is smaller
PyMin(a0, b0) ==
  The({The({IF IsExc(c) THEN c ELSE IF c.n = 1 THEN b ELSE a
            : c \in {PyLt(b, a)}})
       : a \in {a0}, b \in {b0}})

\* int(v): truncation toward zero
IntOf(v0) ==
  The({IF IsExc(v) THEN v
       ELSE IF v.k = "int" THEN v
       ELSE IF v.k = "float" THEN PyInt(FloatTrunc(v))
       ELSE IF v.k = "str" THEN PyExc("ValueError")
       ELSE PyExc("TypeError") : v \in {v0}})

\* round(v): to the nearest integer, ties to even
PyRound(v0) ==
  The({IF IsExc(v) THEN v
       ELSE IF v.k = "int" THEN v
       ELSE IF v.k = "float" THEN PyInt(FloatRound(v))
       ELSE PyExc("TypeError") : v \in {v0}})

\* round(v, 1): to one decimal place
PyRound1(v0) ==
  The({IF IsExc(v) THEN v
       ELSE IF v.k = "int" THEN v
       ELSE IF v.k = "float" THEN FloatRound1(v)
       ELSE PyExc("TypeError") : v \in {v0}})

(***************************************************************************)
(* Strings: str.strip, the in operator, str.split and float()              *)
(***************************************************************************)
Digits == {"0", "1", "2", "3", "4", "5", "6", "7", "8", "9"}

DigitVal(c) ==
  CASE c = "0" -> 0 [] c = "1" -> 1 [] c = "2" -> 2 [] c = "3" -> 3
    [] c = "4" -> 4 [] c = "5" -> 5 [] c = "6" -> 6 [] c = "7" -> 7
    [] c = "8" -> 8 [] c = "9" -> 9

IL == <<"il">>

SIGAN == <<"si", "gan">>

BUN == <<"bun">>

\* s.strip(): s without its leading and trailing blanks
Strip(s0) ==
  The({The({IF inked = {} THEN <<>>
            ELSE SubSeq(s, CHOOSE i \in inked : \A j \in inked : i <= j,
                        CHOOSE i \in inked : \A j \in inked : j <= i)
            : inked \in {{i \in 1..Len(s) : s[i] # " "}}})
       : s \in {s0}})

\* the index of the first occurrence of sep in s, 0 when there is none
Find(s0, sep) ==
  The({The({IF hits = {} THEN 0
            ELSE CHOOSE i \in hits : \A j \in hits : i <= j
            : hits \in {{i \in 1..(Len(s) - Len(sep) + 1) :
                           SubSeq(s, i, i + Len(sep) - 1) = sep}}})
       : s \in {s0}})

\* sep in s
Contains(s, sep) == Find(s, sep) # 0

\* s.split(sep)[0], for s that contains sep
Split0(s0, sep) ==
  The({SubSeq(s, 1, Find(s, sep) - 1) : s \in {s0}})

\* s.split(sep)[1], for s that contains sep
Split1(s0, sep) ==
  The({The({The({IF j = 0 THEN rest ELSE SubSeq(rest, 1, j - 1)
                 : j \in {Find(rest, sep)}})
            : rest \in {SubSeq(s, Find(s, sep) + Len(sep), Len(s))}})
       : s \in {s0}})

\* the number a string of digits writes
RECURSIVE DigitsVal(_)
DigitsVal(s0) ==
  The({IF s = <<>> THEN <<>>
       ELSE MulC(DigitsVal(SubSeq(s, 1, Len(s) - 1)), 10, DigitVal(s[Len(s)]))
       : s \in {s0}})

RECURSIVE Pow10(_)
Pow10(e0) ==
  The({IF e = 0 THEN <<1>> ELSE MulC(Pow10(e - 1), 10, 0) : e \in {e0}})

\* float(s) for s over the alphabet of the model (digits, ".", " ", the
\* unit markers and "x"): surrounding blanks are ignored, the rest must be
\* digits with at most one decimal point and at least one digit, and the
\* result is the float nearest to the decimal written
ParseFloat(s0) ==
  The({The({IF digs = {} \/ Cardinality(dots) > 1
               \/ Cardinality(digs) + Cardinality(dots) # Len(t)
            THEN PyExc("ValueError")
            ELSE The({NearestRatio(1,
                        DigitsVal(SubSeq(t, 1, p - 1)
                                  \o SubSeq(t, p + 1, Len(t))),
                        Pow10(Len(t) - Min(p, Len(t))), 0)
                      : p \in {IF dots = {} THEN Len(t) + 1
                               ELSE CHOOSE i \in dots : TRUE}})
            : dots \in {{i \in 1..Len(t) : t[i] = "."}},
              digs \in {{i \in 1..Len(t) : t[i] \in Digits}}})
       : t \in {Strip(s0)}})

(***************************************************************************)
(* 0. drop_to_10won                                                        *)
(***************************************************************************)
\* rounding to the nearest multiple of 10 instead of cutting
drop_to_10won_nearest(amount) ==
  The({IF IsExc(r) THEN PyInt(0) ELSE r
       : r \in {PyMul(PyFloorDiv(PyAdd(IntOf(amount), PyInt(5)), PyInt(10)),
                      PyInt(10))}})

drop_to_10won(amount) ==
  The({IF IsExc(r) THEN PyInt(0) ELSE r
       : r \in {PyMul(PyFloorDiv(IntOf(amount), PyInt(10)), PyInt(10))}})

(***************************************************************************)
(* 1. NiceRecord: [leave_type, duration_raw, hours_per_day]                *)
(***************************************************************************)
\* one of the three try blocks: the text before the marker is parsed and the
\* text after it kept, or, when the marker is absent or float() raises, the
\* value stays 0 and the text is left as it was
TrySegment(txt0, marker) ==
  The({IF ~Contains(txt, marker) THEN [val |-> PyInt(0), txt |-> txt]
       ELSE The({IF IsExc(val) THEN [val |-> PyInt(0), txt |-> txt]
                 ELSE [val |-> val, txt |-> Split1(txt, marker)]
                 : val \in {ParseFloat(Split0(txt, marker))}})
       : txt \in {txt0}})

parse_duration(self) ==
  The({IF txt0 = <<>>
       THEN [days |-> PyInt(0), hours |-> PyInt(0), minutes |-> PyInt(0)]
       ELSE The({The({The({
         [days |-> IF NumEq(d.val, PyInt(0)) /\ NumEq(h.val, PyInt(0))
                      /\ NumEq(m.val, PyInt(0))
                   THEN The({IF IsExc(bare) THEN d.val ELSE bare
                             : bare \in {ParseFloat(self.duration_raw)}})
                   ELSE d.val,
          hours |-> h.val,
          minutes |-> m.val]
         : m \in {TrySegment(h.txt, BUN)}})
         : h \in {TrySegment(d.txt, SIGAN)}})
         : d \in {TrySegment(txt0, IL)}})
       : txt0 \in {Strip(self.duration_raw)}})

\* the minutes added as they are, not as a fraction of an hour
to_total_hours_raw_minutes(self) ==
  The({PyAdd(PyAdd(PyMul(d.days, self.hours_per_day), d.hours), d.minutes)
       : d \in {parse_duration(self)}})

to_total_hours(self) ==
  The({PyAdd(PyAdd(PyMul(d.days, self.hours_per_day), d.hours),
             PyTrueDiv(d.minutes, PyFloat(60, 1)))
       : d \in {parse_duration(self)}})

NiceRecord(lt, raw, hpd) ==
  [leave_type |-> lt, duration_raw |-> raw, hours_per_day |-> hpd]

Return(v) == [raised |-> "none", value |-> v]

Raise(e) == [raised |-> e, value |-> <<>>]

(***************************************************************************)
(* 2. summarize_nice_records                                               *)
(***************************************************************************)
\* grouped.setdefault(lt, []).append(r): the dict is the sequence of its
\* items in insertion order
\* grouped[lt] = [r]: a later record of a group replaces the earlier ones
setdefault_overwrite(grouped, r) ==
  LET at == {i \in 1..Len(grouped) : grouped[i].lt = r.leave_type}
      i == CHOOSE j \in at : TRUE
  IN IF at = {}
     THEN Append(grouped, [lt |-> r.leave_type, recs |-> <<r>>])
     ELSE SubSeq(grouped, 1, i - 1)
          \o <<[lt |-> grouped[i].lt, recs |-> <<r>>]>>
          \o SubSeq(grouped, i + 1, Len(grouped))

setdefault_append(grouped, r) ==
  LET at == {i \in 1..Len(grouped) : grouped[i].lt = r.leave_type}
      i == CHOOSE j \in at : TRUE
  IN IF at = {}
     THEN Append(grouped, [lt |-> r.leave_type, recs |-> <<r>>])
     ELSE SubSeq(grouped, 1, i - 1)
          \o <<[lt |-> grouped[i].lt, recs |-> Append(grouped[i].recs, r)]>>
          \o SubSeq(grouped, i + 1, Len(grouped))

RECURSIVE group_by_leave_type(_)
group_by_leave_type(records) ==
  IF records = <<>> THEN <<>>
  ELSE setdefault_append(
         group_by_leave_type(SubSeq(records, 1, Len(records) - 1)),
         records[Len(records)])

RECURSIVE total_hours_of(_)
total_hours_of(recs) ==
  IF recs = <<>> THEN PyFloat(0, 1)
  ELSE PyAdd(total_hours_of(SubSeq(recs, 1, Len(recs) - 1)),
             to_total_hours(recs[Len(recs)]))

\* minutes = int(round((remain - hours) * 60))
minutes_of(remain, hours) ==
  IntOf(PyRound(PyMul(PySub(remain, hours), PyInt(60))))

\* f"{days}il {hours}sigan {minutes}bun": the literal pieces and the
\* interpolated values, in order
format_dhm(days, hours, minutes) ==
  <<days, "il", " ", hours, "si", "gan", " ", minutes, "bun">>

\* f"{days}il {round(remain, 1)}sigan"
format_converted(days, remain) ==
  <<days, "il", " ", PyRound1(remain), "si", "gan">>

\* lines 141-145: the total re-expanded with the divisor hpd
reexpand(total_hours, hpd) ==
  The({The({The({[days |-> days, remain |-> remain, hours |-> hours,
                  minutes |-> minutes_of(remain, hours)]
                 : hours \in {IntOf(remain)}})
            : remain \in {PySub(total_hours, PyMul(days, hpd))}})
       : days \in {IntOf(PyFloorDiv(total_hours, hpd))}})

\* one turn of the loop over grouped.items(): the summary, or the exception
\* the turn raises
summarize_group(lt, recs) ==
  The({The({IF IsExc(e.minutes) THEN Raise(e.minutes.k)
            ELSE Return(
                   [leave_type |-> lt,
                    count |-> Len(recs),
                    sum_d_h_m |-> format_dhm(e.days, e.hours, e.minutes),
                    sum_hours_decimal |-> PyRound1(total_hours),
                    converted_days_hours |->
                      format_converted(e.days, e.remain)])
            : e \in {reexpand(total_hours, recs[1].hours_per_day)}})
       : total_hours \in {total_hours_of(recs)}})

\* the loop over grouped.items(): the output list, or the exception of the
\* first turn that raises
RECURSIVE summarize_groups(_)
summarize_groups(grouped0) ==
  The({IF grouped = <<>> THEN Return(<<>>)
       ELSE The({IF before.raised # "none" THEN before
                 ELSE The({IF last.raised # "none" THEN last
                           ELSE Return(Append(before.value, last.value))
                           : last \in {summarize_group(
                                         grouped[Len(grouped)].lt,
                                         grouped[Len(grouped)].recs)}})
                 : before \in {summarize_groups(
                                 SubSeq(grouped, 1, Len(grouped) - 1))}})
       : grouped \in {grouped0}})

summarize_nice_records(records) ==
  IF records = <<>> THEN Return(<<>>)
  ELSE summarize_groups(group_by_leave_type(records))

(***************************************************************************)
(* 3. RuleProfile and RULE_PROFILES                                        *)
(***************************************************************************)
rounding_step == 10

RuleProfile(id, name) ==
  [id |-> id, name |-> name, rounding_step |-> rounding_step,
   rounding_mode |-> "floor", base_days |-> PyNone]

\* the names stand for the Korean display names of lines 180-196
RULE_PROFILES_0 ==
  [r \in {"law_basic", "gw_school_cba", "gw_institute_cba",
          "gw_wage_guideline", "custom"} |->
     CASE r = "law_basic" -> RuleProfile(r, "statutory basic")
       [] r = "gw_school_cba" -> RuleProfile(r, "school staff CBA (example)")
       [] r = "gw_institute_cba" ->
            RuleProfile(r, "institute staff CBA (example)")
       [] r = "gw_wage_guideline" ->
            RuleProfile(r, "ordinary wage guideline (example)")
       [] r = "custom" -> RuleProfile(r, "custom")]

\* RULE_PROFILES.get(rule_id, RULE_PROFILES["custom"])
\* RULE_PROFILES[rule_id]: no default for an unknown identifier
RULE_PROFILES_subscript(cat, rule_id) ==
  IF rule_id \in DOMAIN cat THEN Return(cat[rule_id]) ELSE Raise("KeyError")

RULE_PROFILES_get(cat, rule_id) ==
  IF "custom" \notin DOMAIN cat THEN Raise("KeyError")
  ELSE IF rule_id \in DOMAIN cat THEN Return(cat[rule_id])
  ELSE Return(cat["custom"])

\* RULE_PROFILES.setdefault(rule_id, RULE_PROFILES["custom"]): the lookup
\* of an unknown identifier adds an entry
catalog_after_setdefault(cat, rule_id) ==
  IF rule_id \in DOMAIN cat THEN cat
  ELSE [r \in DOMAIN cat \cup {rule_id} |->
          IF r = rule_id THEN cat["custom"] ELSE cat[r]]

\* the catalog after the lookup of line 368: dict.get inserts nothing
catalog_after_get(cat, rule_id) == cat

\* d.get(key, default)
DictGet(d, key, default) == IF key \in DOMAIN d THEN d[key] ELSE default

(***************************************************************************)
(* 4. suggest_annual_days                                                  *)
(***************************************************************************)
Suggestion(days, description) ==
  IF IsExc(days) THEN Raise(days.k)
  ELSE Return([suggested_days |-> days, description |-> description])

\* extra = max(0, (fy - 1) // 2): the cap of 10 forgotten
law_basic_extra_uncapped(fy) ==
  PyMax(PyInt(0), PyFloorDiv(PySub(fy, PyInt(1)), PyInt(2)))

\* extra = max(0, min(10, (fy - 1) // 2))
law_basic_extra(fy) ==
  PyMax(PyInt(0), PyMin(PyInt(10), PyFloorDiv(PySub(fy, PyInt(1)), PyInt(2))))

\* branch A; lt1 is fy < 1 and lt80 is rate < 80
law_basic(fy, rate, fm) ==
  LET lt1 == PyLt(fy, PyInt(1))
      lt80 == PyLt(rate, PyInt(80))
      capped == PyMin(fm, PyInt(11))
      extra == law_basic_extra(fy)
      days == PyAdd(PyInt(15), extra)
  IN IF IsExc(lt1) THEN Raise(lt1.k)
     ELSE IF lt1.n = 1
          THEN Suggestion(capped,
                 <<"law_basic: under 1 year, months ", fm, " -> ", capped>>)
     ELSE IF IsExc(lt80) THEN Raise(lt80.k)
     ELSE IF lt80.n = 1
          THEN Suggestion(fm,
                 <<"law_basic: rate ", rate, "% < 80, months ", fm, " -> ",
                   fm>>)
     ELSE Suggestion(days,
            <<"law_basic: years ", fy, ", base 15 + extra ", extra, " = ",
              days>>)

\* branch B
gw_school_cba(fy, rate, fm) ==
  LET lt1 == PyLt(fy, PyInt(1))
      lt80 == PyLt(rate, PyInt(80))
      capped == PyMin(fm, PyInt(11))
  IN IF IsExc(lt1) THEN Raise(lt1.k)
     ELSE IF lt1.n = 1
          THEN Suggestion(capped,
                 <<"school CBA: under 1 year, months ", fm, " -> ", capped>>)
     ELSE IF IsExc(lt80) THEN Raise(lt80.k)
     ELSE IF lt80.n = 0
          THEN Suggestion(PyInt(26),
                 <<"school CBA: rate ", rate, "% >= 80 -> ", PyInt(26)>>)
     ELSE Suggestion(fm, <<"school CBA: rate ", rate, "% < 80 -> ", fm>>)

\* branch C
gw_institute_cba(fy, rate, fm) ==
  LET lt1 == PyLt(fy, PyInt(1))
      lt80 == PyLt(rate, PyInt(80))
      capped == PyMin(fm, PyInt(11))
  IN IF IsExc(lt1) THEN Raise(lt1.k)
     ELSE IF lt1.n = 1
          THEN Suggestion(capped,
                 <<"institute CBA: under 1 year, months ", fm, " -> ",
                   capped>>)
     ELSE IF IsExc(lt80) THEN Raise(lt80.k)
     ELSE IF lt80.n = 0
          THEN Suggestion(PyInt(25),
                 <<"institute CBA: rate ", rate, "% >= 80 -> ", PyInt(25)>>)
     ELSE Suggestion(fm, <<"institute CBA: rate ", rate, "% < 80 -> ", fm>>)

\* branch D with the attendance gate of branch B
gw_wage_guideline_rate_gated(fy, rate, fm) == gw_school_cba(fy, rate, fm)

\* branch D
gw_wage_guideline(fy, rate, fm) ==
  LET lt1 == PyLt(fy, PyInt(1))
      capped == PyMin(fm, PyInt(11))
  IN IF IsExc(lt1) THEN Raise(lt1.k)
     ELSE IF lt1.n = 1
          THEN Suggestion(capped,
                 <<"guideline: under 1 year, months ", fm, " -> ", capped>>)
     ELSE Suggestion(PyInt(26),
            <<"guideline: years ", fy, " -> ", PyInt(26)>>)

\* branch E; the text stands for the Korean description of line 315
custom_suggestion ==
  Return([suggested_days |-> PyNone,
          description |-> <<"custom mode: manual entry">>])

suggest_annual_days(rule_id, svc) ==
  LET fy == DictGet(svc, "full_years", PyInt(0))
      rate == DictGet(svc, "attendance_rate", PyInt(0))
      fm == DictGet(svc, "full_months", PyInt(0))
  IN IF rule_id = "law_basic" THEN law_basic(fy, rate, fm)
     ELSE IF rule_id = "gw_school_cba" THEN gw_school_cba(fy, rate, fm)
     ELSE IF rule_id = "gw_institute_cba" THEN gw_institute_cba(fy, rate, fm)
     ELSE IF rule_id = "gw_wage_guideline"
          THEN gw_wage_guideline(fy, rate, fm)
     ELSE custom_suggestion

(***************************************************************************)
(* 5. calc_daily_wage                                                      *)
(***************************************************************************)
calc_daily_wage(wage) ==
  LET wtype == DictGet(wage, "wage_type", "None")
      amt == DictGet(wage, "wage_amount", PyInt(0))
      hpd == DictGet(wage, "hours_per_day", PyInt(8))
      mwd == DictGet(wage, "monthly_work_days", PyInt(20))
      pos == PyLt(PyInt(0), mwd)
  IN IF wtype = "hourly" THEN PyMul(amt, hpd)
     ELSE IF wtype = "daily" THEN amt
     ELSE IF wtype = "monthly"
          THEN IF IsExc(pos) THEN pos
               ELSE IF pos.n = 1 THEN PyTrueDiv(amt, mwd)
               ELSE PyInt(0)
     ELSE PyInt(0)

(***************************************************************************)
(* 6. full_pipeline                                                        *)
(***************************************************************************)
\* unused = granted_days - used_days: the floor at 0 forgotten
unused_days_no_floor(granted_days, used_days) ==
  PySub(granted_days, used_days)

\* unused = max(granted_days - used_days, 0)
unused_days(granted_days, used_days) ==
  PyMax(PySub(granted_days, used_days), PyInt(0))

\* steps 3) to 6): the payout part of the result, or the exception raised
payout_of(wage, granted_days, used_days) ==
  The({The({IF IsExc(unused) THEN Raise(unused.k)
            ELSE IF IsExc(daily_raw) THEN Raise(daily_raw.k)
            ELSE IF IsExc(payout_raw) THEN Raise(payout_raw.k)
            ELSE Return([granted_days |-> granted_days,
                         used_days |-> used_days,
                         unused_days |-> unused,
                         daily_wage_raw |-> daily_raw,
                         payout_raw |-> payout_raw,
                         daily_wage_rounded |-> drop_to_10won(daily_raw),
                         payout_rounded |-> drop_to_10won(payout_raw)])
            : payout_raw \in {PyMul(unused, daily_raw)}})
       : unused \in {unused_days(granted_days, used_days)},
         daily_raw \in {calc_daily_wage(wage)}})

\* the returned dict
pipeline_result(profile, suggestion, payout) ==
  Return([rule |-> [id |-> profile.id, name |-> profile.name],
          suggestion |-> suggestion,
          payout |-> payout])

full_pipeline(cat, rule_id, svc, wage, granted_days, used_days) ==
  The({IF profile.raised # "none" THEN Raise(profile.raised)
       ELSE IF suggestion.raised # "none" THEN Raise(suggestion.raised)
       ELSE IF payout.raised # "none" THEN Raise(payout.raised)
       ELSE pipeline_result(profile.value, suggestion.value, payout.value)
       : profile \in {RULE_PROFILES_get(cat, rule_id)},
         suggestion \in {suggest_annual_days(rule_id, svc)},
         payout \in {payout_of(wage, granted_days, used_days)}})

(***************************************************************************)
(* Inputs. The bounds of the model are MaxYears, MaxMonths, MaxDays,       *)
(* MaxRecords and NumCallers; the sets below are the values the callers    *)
(* pass.                                                                   *)
(***************************************************************************)
MaxYears == 24

MaxMonths == 12

MaxDays == 3

MaxRecords == 3

NumCallers == 2

KnownRuleIds ==
  {"law_basic", "gw_school_cba", "gw_institute_cba", "gw_wage_guideline"}

RuleIds == KnownRuleIds \cup {"custom", "unknown_rule", "LAW_BASIC", ""}

Rates == {PyInt(0), PyInt(79), PyFloat(159, 2), PyInt(80), PyInt(100)}

ServiceSummary(fy, rate, fm) ==
  [full_years |-> fy, attendance_rate |-> rate, full_months |-> fm]

\* every count of months with the first years of service, the extreme counts
\* of months with the later ones
ServicePeriods ==
  {p \in (0..MaxYears) \X (0..MaxMonths) :
     p[1] <= 2 \/ p[2] \in {0, MaxMonths}}

ServiceSummaries ==
  {ServiceSummary(PyInt(p[1]), r, PyInt(p[2])) :
     p \in ServicePeriods, r \in Rates}
  \cup {<<>>, [full_years |-> PyInt(3)]}

WageSpec(t, amt, hpd, mwd) ==
  [wage_type |-> t, wage_amount |-> amt, hours_per_day |-> hpd,
   monthly_work_days |-> mwd]

WageTypes == {"hourly", "daily", "monthly", "weekly"}

Amounts ==
  {PyInt(0), PyInt(11111), PyInt(14567), PyInt(2000000), PyFloat(20061, 2)}

WageSpecs ==
  {WageSpec(t, a, h, m) :
     t \in WageTypes, a \in Amounts, h \in {PyInt(8), PyFloat(15, 2)},
     m \in {PyInt(20), PyInt(3)}}
  \cup {[wage_type |-> t, wage_amount |-> a] : t \in WageTypes, a \in Amounts}
  \cup {<<>>}

DayCounts == {PyInt(n) : n \in 0..MaxDays} \cup {PyFloat(5, 2), PyFloat(3, 10)}

DefaultService == ServiceSummary(PyInt(3), PyInt(95), PyInt(0))

DefaultWage == [wage_type |-> "monthly", wage_amount |-> PyInt(2000000),
                monthly_work_days |-> PyInt(20)]

PipelineArgs(r, svc, wage, g, u) ==
  [rule_id |-> r, svc |-> svc, wage |-> wage, granted_days |-> g,
   used_days |-> u]

\* well-formed arguments of full_pipeline: every rule with every service
\* summary, and every wage specification with every pair of day counts
PipelineInputs ==
  {PipelineArgs(r, svc, DefaultWage, PyInt(15), PyInt(5)) :
     r \in RuleIds, svc \in ServiceSummaries}
  \cup {PipelineArgs("law_basic", DefaultService, w, g, u) :
          w \in WageSpecs, g \in DayCounts, u \in DayCounts}

NumTexts ==
  {<<"1">>, <<"3">>, <<"5">>, <<"3", "0">>, <<"0">>, <<"2", ".", "5">>,
   <<"5", "9", ".", "7">>, <<"0", ".", "9", "9", "9">>}

Join(a, sep, b) == IF a = <<>> \/ b = <<>> THEN a \o b ELSE a \o sep \o b

Segment(n, marker) == IF n = <<>> THEN <<>> ELSE n \o marker

\* the segments "<n>il", "<m>sigan", "<s>bun" in that order, an absent segment
\* given as the empty text, separated by sep
Compose(n, m, s, sep) ==
  Join(Segment(n, IL), sep, Join(Segment(m, SIGAN), sep, Segment(s, BUN)))

Separators == {<<>>, <<" ">>}

\* the numbers written in each segment, the empty text for an absent segment
DayTexts == {<<>>, <<"0">>, <<"1">>, <<"3">>, <<"2", ".", "5">>}

HourTexts ==
  {<<>>, <<"0">>, <<"1">>, <<"3">>, <<"5">>, <<"2", ".", "5">>,
   <<"0", ".", "9", "9", "9">>}

MinuteTexts ==
  {<<>>, <<"0">>, <<"3">>, <<"3", "0">>, <<"5", "9", ".", "7">>,
   <<"0", ".", "9", "9", "9">>}

DurationTexts ==
  {Compose(n, m, s, sep) :
     n \in DayTexts, m \in HourTexts, s \in MinuteTexts, sep \in Separators}
  \cup NumTexts \cup {<<" ">> \o n \o <<" ">> : n \in NumTexts}

HoursPerDay == {PyInt(8), PyFloat(15, 2)}

LeaveTypes == {"sick", "annual", "official"}

ParseRecords ==
  {NiceRecord("annual", t, h) : t \in DurationTexts, h \in HoursPerDay}

GroupRecords ==
  {NiceRecord(lt, <<"1", "il", "5", "si", "gan">>, PyInt(8)) :
     lt \in LeaveTypes}
  \cup {NiceRecord(lt, <<"6", ".", "5", "si", "gan">>, PyInt(4)) :
          lt \in LeaveTypes}

RECURSIVE SeqsUpTo(_, _)
SeqsUpTo(S, n) ==
  IF n = 0 THEN {<<>>}
  ELSE LET shorter == SeqsUpTo(S, n - 1)
       IN shorter \cup {Append(q, x) : q \in shorter, x \in S}

\* well-formed arguments of summarize_nice_records
SummarizeInputs ==
  SeqsUpTo(GroupRecords, MaxRecords) \cup {<<r>> : r \in ParseRecords}

(***************************************************************************)
(* A sequential caller: one call at a time. call is the invocation in     *)
(* hand and ret what it returned or raised; take_result is the caller      *)
(* consuming the result, after which it may call again.                    *)
(***************************************************************************)
Callers == 1..NumCallers

Init ==
  /\ RULE_PROFILES = RULE_PROFILES_0
  /\ call = [fn |-> "none", args |-> <<>>]
  /\ ret = Return(<<>>)
  /\ pc = [c \in Callers |-> "idle"]
  /\ frame = [c \in Callers |-> <<>>]

do_full_pipeline(a) ==
  /\ call' = [fn |-> "full_pipeline", args |-> a]
  /\ ret' = full_pipeline(RULE_PROFILES, a.rule_id, a.svc, a.wage,
                          a.granted_days, a.used_days)
  /\ RULE_PROFILES' = catalog_after_get(RULE_PROFILES, a.rule_id)
  /\ UNCHANGED <<pc, frame>>

do_summarize_nice_records(records) ==
  /\ call' = [fn |-> "summarize_nice_records", args |-> records]
  /\ ret' = summarize_nice_records(records)
  /\ UNCHANGED <<RULE_PROFILES, pc, frame>>

do_parse_duration(r) ==
  /\ call' = [fn |-> "parse_duration", args |-> r]
  /\ ret' = Return(parse_duration(r))
  /\ UNCHANGED <<RULE_PROFILES, pc, frame>>

do_to_total_hours(r) ==
  /\ call' = [fn |-> "to_total_hours", args |-> r]
  /\ ret' = (LET t == to_total_hours(r)
             IN IF IsExc(t) THEN Raise(t.k) ELSE Return(t))
  /\ UNCHANGED <<RULE_PROFILES, pc, frame>>

call_full_pipeline ==
  /\ call.fn = "none"
  /\ \E a \in PipelineInputs : do_full_pipeline(a)

call_summarize_nice_records ==
  /\ call.fn = "none"
  /\ \E records \in SummarizeInputs :
       do_summarize_nice_records(records)

call_parse_duration ==
  /\ call.fn = "none"
  /\ \E r \in ParseRecords : do_parse_duration(r)

call_to_total_hours ==
  /\ call.fn = "none"
  /\ \E r \in ParseRecords : do_to_total_hours(r)

take_result ==
  /\ call.fn # "none"
  /\ call' = [fn |-> "none", args |-> <<>>]
  /\ ret' = Return(<<>>)
  /\ UNCHANGED <<RULE_PROFILES, pc, frame>>

Next ==
  \/ take_result
  \/ call_full_pipeline
  \/ call_summarize_nice_records
  \/ call_parse_duration
  \/ call_to_total_hours

Spec == Init /\ [][Next]_vars

(***************************************************************************)
(* A caller that passes faulty input: a non-numeric or missing wage amount, *)
(* a zero hours_per_day or monthly_work_days, a malformed duration string.  *)
(***************************************************************************)
FaultyWageSpecs ==
  {WageSpec(t, a, h, m) :
     t \in WageTypes, a \in {PyStr(1), PyNone, PyInt(100000)},
     h \in {PyInt(0), PyInt(8)}, m \in {PyInt(0), PyInt(20)}}

FaultyPipelineInputs ==
  {PipelineArgs(r, DefaultService, w, g, u) :
     r \in {"law_basic", "unknown_rule"}, w \in FaultyWageSpecs,
     g \in DayCounts, u \in DayCounts}

MalformedTexts ==
  {<<>>, <<" ">>, <<"x">>, <<"il">>, <<"5", "si">>,
   <<"1", ".", "2", ".", "3">>,
   <<"1", "il", "x", "si", "gan">>,
   <<"x", "il", "5", "si", "gan">>,
   <<"5", "si", "gan", "1", "il">>,
   <<"1", "il", "2", "il", "3", "si", "gan">>,
   <<"1", "il", "5", "si", "gan">>}

FaultyRecords ==
  {NiceRecord(lt, t, h) :
     lt \in {"sick", "annual"}, t \in MalformedTexts,
     h \in {PyInt(0), PyInt(8)}}

FaultySummarizeInputs == SeqsUpTo(FaultyRecords, 2)

call_full_pipeline_faulty ==
  /\ call.fn = "none"
  /\ \E a \in FaultyPipelineInputs : do_full_pipeline(a)

call_summarize_nice_records_faulty ==
  /\ call.fn = "none"
  /\ \E records \in FaultySummarizeInputs :
       do_summarize_nice_records(records)

NextLenient ==
  \/ take_result
  \/ call_full_pipeline_faulty
  \/ call_summarize_nice_records_faulty

SpecLenient == Init /\ [][NextLenient]_vars

(***************************************************************************)
(* Concurrent callers: each runs full_pipeline or summarize_nice_records   *)
(* statement by statement on its own frame; pc[c] is the line caller c is  *)
(* at. RULE_PROFILES is the only state the callers share.                  *)
(***************************************************************************)
ConcurrentPipelineInputs ==
  {PipelineArgs(r, DefaultService, DefaultWage, PyInt(15), PyInt(5)) :
     r \in {"law_basic", "unknown_rule"}}

ConcurrentSummarizeInputs ==
  {<<>>,
   <<NiceRecord("sick", <<"1", "il", "5", "si", "gan">>, PyInt(8)),
     NiceRecord("sick", <<"6", ".", "5", "si", "gan">>, PyInt(8))>>}

\* caller c goes to line l with the frame f
Goto(c, l, f) ==
  /\ pc' = [pc EXCEPT ![c] = l]
  /\ frame' = [frame EXCEPT ![c] = f]

\* caller c leaves its call with the result r
Leave(c, r) ==
  Goto(c, "done", [fn |-> frame[c].fn, args |-> frame[c].args, result |-> r])

invoke_full_pipeline(c) ==
  /\ pc[c] = "idle"
  /\ \E a \in ConcurrentPipelineInputs :
       Goto(c, "L368", [fn |-> "full_pipeline", args |-> a])
  /\ UNCHANGED <<RULE_PROFILES, call, ret>>

L368_profile(c) ==
  /\ pc[c] = "L368"
  /\ LET f == frame[c]
         profile == RULE_PROFILES_get(RULE_PROFILES, f.args.rule_id)
     IN IF profile.raised # "none" THEN Leave(c, Raise(profile.raised))
        ELSE Goto(c, "L371", [fn |-> f.fn, args |-> f.args,
                              profile |-> profile.value])
  /\ RULE_PROFILES' = catalog_after_get(RULE_PROFILES, frame[c].args.rule_id)
  /\ UNCHANGED <<call, ret>>

L371_suggestion(c) ==
  /\ pc[c] = "L371"
  /\ LET f == frame[c]
         suggestion == suggest_annual_days(f.args.rule_id, f.args.svc)
     IN IF suggestion.raised # "none" THEN Leave(c, Raise(suggestion.raised))
        ELSE Goto(c, "L374", [fn |-> f.fn, args |-> f.args,
                              profile |-> f.profile,
                              suggestion |-> suggestion.value])
  /\ UNCHANGED <<RULE_PROFILES, call, ret>>

L374_payout(c) ==
  /\ pc[c] = "L374"
  /\ LET f == frame[c]
         payout == payout_of(f.args.wage, f.args.granted_days,
                             f.args.used_days)
     IN IF payout.raised # "none" THEN Leave(c, Raise(payout.raised))
        ELSE Goto(c, "L386", [fn |-> f.fn, args |-> f.args,
                              profile |-> f.profile,
                              suggestion |-> f.suggestion,
                              payout |-> payout.value])
  /\ UNCHANGED <<RULE_PROFILES, call, ret>>

L386_return(c) ==
  /\ pc[c] = "L386"
  /\ Leave(c, pipeline_result(frame[c].profile, frame[c].suggestion,
                              frame[c].payout))
  /\ UNCHANGED <<RULE_PROFILES, call, ret>>

invoke_summarize_nice_records(c) ==
  /\ pc[c] = "idle"
  /\ \E records \in ConcurrentSummarizeInputs :
       Goto(c, "L125", [fn |-> "summarize_nice_records", args |-> records])
  /\ UNCHANGED <<RULE_PROFILES, call, ret>>

L125_grouped(c) ==
  /\ pc[c] = "L125"
  /\ LET f == frame[c]
     IN IF f.args = <<>> THEN Leave(c, Return(<<>>))
        ELSE Goto(c, "L133", [fn |-> f.fn, args |-> f.args,
                              grouped |-> group_by_leave_type(f.args)])
  /\ UNCHANGED <<RULE_PROFILES, call, ret>>

L133_output(c) ==
  /\ pc[c] = "L133"
  /\ LET f == frame[c]
         output == summarize_groups(f.grouped)
     IN IF output.raised # "none" THEN Leave(c, output)
        ELSE Goto(c, "L160", [fn |-> f.fn, args |-> f.args,
                              output |-> output.value])
  /\ UNCHANGED <<RULE_PROFILES, call, ret>>

L160_return(c) ==
  /\ pc[c] = "L160"
  /\ Leave(c, Return(frame[c].output))
  /\ UNCHANGED <<RULE_PROFILES, call, ret>>

\* caller c takes its result and is ready to call again
collect(c) ==
  /\ pc[c] = "done"
  /\ Goto(c, "idle", <<>>)
  /\ UNCHANGED <<RULE_PROFILES, call, ret>>

NextConcurrent ==
  \E c \in Callers :
    \/ invoke_full_pipeline(c)
    \/ L368_profile(c)
    \/ L371_suggestion(c)
    \/ L374_payout(c)
    \/ L386_return(c)
    \/ invoke_summarize_nice_records(c)
    \/ L125_grouped(c)
    \/ L133_output(c)
    \/ L160_return(c)
    \/ collect(c)

SpecConcurrent == Init /\ [][NextConcurrent]_vars

(***************************************************************************)
(* Properties                                                              *)
(***************************************************************************)
IntMin(a, b) == IF a < b THEN a ELSE b

Clamp(x, lo, hi) == IF x < lo THEN lo ELSE IF x > hi THEN hi ELSE x

IsRun == call.fn = "full_pipeline"

IsSummarize == call.fn = "summarize_nice_records"

\* the service summary of the call, absent keys read as 0
FullYears == DictGet(call.args.svc, "full_years", PyInt(0)).n

FullMonths == DictGet(call.args.svc, "full_months", PyInt(0)).n

AttendanceRate == DictGet(call.args.svc, "attendance_rate", PyInt(0))

RateAtLeast80 == NumLe(PyInt(80), AttendanceRate)

SuggestedDays == ret.value.suggestion.suggested_days

Payout == ret.value.payout

\* C1: neither entry point raises, whatever the input: a faulty quantity
\* becomes a safe default
C1_NeverRaises == ret.raised = "none"

\* C2: unused_days = max(granted_days - used_days, 0), never negative and 0
\* whenever used_days >= granted_days, and payout_raw = unused_days *
\* daily_wage_raw (0 whenever used_days >= granted_days); the difference and
\* the product are those of the float arithmetic
C2_UnusedDays ==
  IsRun =>
    /\ ret.raised = "none"
    /\ LET g == call.args.granted_days
           u == call.args.used_days
       IN /\ NumLe(PyInt(0), Payout.unused_days)
          /\ NumLe(g, u) =>
               /\ NumEq(Payout.unused_days, PyInt(0))
               /\ NumEq(Payout.payout_raw, PyInt(0))
          /\ NumLt(u, g) => NumEq(Payout.unused_days, PySub(g, u))
          /\ NumEq(Payout.payout_raw,
                   PyMul(Payout.unused_days, Payout.daily_wage_raw))

C2_Witness ==
  /\ IsRun
  /\ NumLt(call.args.granted_days, call.args.used_days)
  /\ NumLt(PyInt(0), Payout.daily_wage_raw)
  /\ NumEq(Payout.unused_days, PyInt(0))
  /\ NumEq(Payout.payout_raw, PyInt(0))

\* r is amount cut to the multiple of 10 below it
CutTo10(amount, r) ==
  /\ r.k = "int"
  /\ r.n % 10 = 0
  /\ NumLe(PyInt(0), amount) =>
       /\ NumLe(r, amount)
       /\ NumLt(amount, PyInt(r.n + 10))

\* C3: daily_wage_rounded and payout_rounded are multiples of 10, each cut
\* from its own raw amount: r mod 10 = 0 and r <= a < r + 10 for a raw
\* amount a >= 0 (11111 -> 11110, 14567 -> 14560, 0 -> 0)
C3_RoundedDown ==
  IsRun =>
    /\ ret.raised = "none"
    /\ CutTo10(Payout.daily_wage_raw, Payout.daily_wage_rounded)
    /\ CutTo10(Payout.payout_raw, Payout.payout_rounded)
    /\ NumEq(Payout.daily_wage_raw, PyInt(11111)) =>
         Payout.daily_wage_rounded.n = 11110
    /\ NumEq(Payout.daily_wage_raw, PyInt(14567)) =>
         Payout.daily_wage_rounded.n = 14560
    /\ NumEq(Payout.payout_raw, PyInt(0)) => Payout.payout_rounded.n = 0

C3_Witness ==
  /\ IsRun
  /\ Payout.daily_wage_raw = PyInt(11111)
  /\ Payout.daily_wage_rounded = PyInt(11110)
  /\ Payout.unused_days = PyFloat(5, 2)
  /\ Payout.payout_rounded = PyInt(27770)

\* C4: law_basic suggests min(full_months, 11) under one full year, else
\* full_months when the attendance rate is under 80, else
\* 15 + clamp((full_years - 1) // 2, 0, 10), which lies in 15..25
C4_LawBasic ==
  (IsRun /\ call.args.rule_id = "law_basic") =>
    /\ ret.raised = "none"
    /\ SuggestedDays.k = "int"
    /\ SuggestedDays.n =
         IF FullYears < 1 THEN IntMin(FullMonths, 11)
         ELSE IF ~RateAtLeast80 THEN FullMonths
         ELSE 15 + Clamp((FullYears - 1) \div 2, 0, 10)
    /\ (FullYears >= 1 /\ RateAtLeast80) => SuggestedDays.n \in 15..25

C4_Witness ==
  /\ IsRun
  /\ call.args.rule_id = "law_basic"
  /\ FullYears = 23
  /\ AttendanceRate = PyInt(80)
  /\ SuggestedDays = PyInt(25)

\* C5: under one full year the three gw rules suggest min(full_months, 11);
\* from one full year on gw_school_cba suggests 26 and gw_institute_cba 25
\* when the attendance rate is at least 80 and full_months otherwise, and
\* gw_wage_guideline suggests 26 whatever the rate and the months
C5_GwRules ==
  (IsRun /\ call.args.rule_id
              \in {"gw_school_cba", "gw_institute_cba", "gw_wage_guideline"})
  =>
    /\ ret.raised = "none"
    /\ SuggestedDays.k = "int"
    /\ SuggestedDays.n =
         IF FullYears < 1 THEN IntMin(FullMonths, 11)
         ELSE IF call.args.rule_id = "gw_wage_guideline" THEN 26
         ELSE IF ~RateAtLeast80 THEN FullMonths
         ELSE IF call.args.rule_id = "gw_school_cba" THEN 26
         ELSE 25

C5_Witness ==
  /\ IsRun
  /\ call.args.rule_id = "gw_wage_guideline"
  /\ FullYears = 2
  /\ FullMonths = 5
  /\ AttendanceRate = PyInt(0)
  /\ SuggestedDays = PyInt(26)

\* C6: for "custom" and for every identifier outside the catalog the call
\* does not fail, reports the custom profile and suggests no days, with the
\* fixed description; for the four other identifiers it reports the
\* identifier passed in and suggests a number of days
C6_CustomFallback ==
  IsRun =>
    /\ ret.raised = "none"
    /\ call.args.rule_id \notin KnownRuleIds =>
         /\ ret.value.rule.id = "custom"
         /\ ret.value.rule.name = RULE_PROFILES_0["custom"].name
         /\ SuggestedDays = PyNone
         /\ ret.value.suggestion.description = <<"custom mode: manual entry">>
    /\ call.args.rule_id \in KnownRuleIds =>
         /\ ret.value.rule.id = call.args.rule_id
         /\ SuggestedDays.k # "None"

C6_Witness ==
  /\ IsRun
  /\ call.args.rule_id = "unknown_rule"
  /\ ret.raised = "none"
  /\ ret.value.rule.id = "custom"
  /\ SuggestedDays = PyNone

\* the index of the first record of the leave type lt
FirstSeen(records, lt) ==
  CHOOSE i \in 1..Len(records) :
    /\ records[i].leave_type = lt
    /\ \A j \in 1..(i - 1) : records[j].leave_type # lt

RECURSIVE SumCounts(_)
SumCounts(out) ==
  IF out = <<>> THEN 0 ELSE out[1].count + SumCounts(Tail(out))

\* C7: one summary per distinct leave type, in the order the types first
\* occur in the input; count is the number of records of the type (at least
\* 1, and the counts add up to the length of the input); no records give no
\* summaries
C7_Grouping ==
  IsSummarize =>
    /\ ret.raised = "none"
    /\ LET records == call.args
           out == ret.value
       IN /\ {out[i].leave_type : i \in 1..Len(out)}
               = {records[j].leave_type : j \in 1..Len(records)}
          /\ \A i, j \in 1..Len(out) :
               i < j => FirstSeen(records, out[i].leave_type)
                          < FirstSeen(records, out[j].leave_type)
          /\ \A i \in 1..Len(out) :
               /\ out[i].count >= 1
               /\ out[i].count =
                    Cardinality({j \in 1..Len(records) :
                                   records[j].leave_type = out[i].leave_type})
          /\ SumCounts(out) = Len(records)
          /\ records = <<>> => out = <<>>

C7_Witness ==
  /\ IsSummarize
  /\ Len(call.args) = 3
  /\ call.args[1].leave_type = "sick"
  /\ call.args[2].leave_type = "annual"
  /\ call.args[3].leave_type = "sick"
  /\ Len(ret.value) = 2
  /\ ret.value[1].leave_type = "sick"
  /\ ret.value[1].count = 2
  /\ ret.value[2].count = 1

\* the number a text of NumTexts writes, 0 for the absent segment
TextValue(t) ==
  CASE t = <<>> -> PyInt(0)
    [] t = <<"0">> -> PyInt(0)
    [] t = <<"1">> -> PyInt(1)
    [] t = <<"3">> -> PyInt(3)
    [] t = <<"5">> -> PyInt(5)
    [] t = <<"3", "0">> -> PyInt(30)
    [] t = <<"2", ".", "5">> -> PyFloat(5, 2)
    [] t = <<"5", "9", ".", "7">> -> PyFloat(597, 10)
    [] t = <<"0", ".", "9", "9", "9">> -> PyFloat(999, 1000)

\* every composed duration text with the numbers of its segments, and every
\* bare number as a count of days
Shapes ==
  {[text |-> Compose(n, m, s, sep), days |-> TextValue(n),
    hours |-> TextValue(m), minutes |-> TextValue(s)] :
     n \in DayTexts, m \in HourTexts, s \in MinuteTexts, sep \in Separators}
  \cup {[text |-> IF pad THEN <<" ">> \o n \o <<" ">> ELSE n,
         days |-> TextValue(n), hours |-> PyInt(0), minutes |-> PyInt(0)] :
          n \in NumTexts, pad \in BOOLEAN}

\* C8: a text of the segments "<N>il", "<M>sigan", "<S>bun" in that order
\* parses to days N, hours M, minutes S (0 when absent) and totals
\* N * hours_per_day + M + S / 60 hours, the sum, the product and the
\* quotient being those of the float arithmetic; a bare number N is N days
C8_ParseDuration ==
  /\ call.fn = "parse_duration" =>
       /\ ret.raised = "none"
       /\ \A sh \in Shapes :
            sh.text = call.args.duration_raw =>
              /\ NumEq(ret.value.days, sh.days)
              /\ NumEq(ret.value.hours, sh.hours)
              /\ NumEq(ret.value.minutes, sh.minutes)
  /\ call.fn = "to_total_hours" =>
       /\ ret.raised = "none"
       /\ \A sh \in Shapes :
            sh.text = call.args.duration_raw =>
              NumEq(ret.value,
                    PyAdd(PyAdd(PyMul(sh.days, call.args.hours_per_day),
                                sh.hours),
                          PyTrueDiv(sh.minutes, PyInt(60))))

C8_Witness ==
  /\ call.fn = "to_total_hours"
  /\ call.args.duration_raw =
       <<"1", "il", " ", "5", "si", "gan", " ", "3", "0", "bun">>
  /\ call.args.hours_per_day = PyInt(8)
  /\ ret.value = PyFloat(27, 2)

\* the result a call returns when nothing else runs
Alone(f) ==
  IF f.fn = "full_pipeline"
  THEN full_pipeline(RULE_PROFILES_0, f.args.rule_id, f.args.svc, f.args.wage,
                     f.args.granted_days, f.args.used_days)
  ELSE summarize_nice_records(f.args)

\* C9: the calls are independent of the history and of each other: the
\* catalog keeps its five original entries, every call returns what it
\* returns when it runs alone, and two calls with equal arguments return
\* equal results
C9_Independent ==
  /\ RULE_PROFILES = RULE_PROFILES_0
  /\ DOMAIN RULE_PROFILES =
       {"law_basic", "gw_school_cba", "gw_institute_cba",
        "gw_wage_guideline", "custom"}
  /\ \A c \in Callers : pc[c] = "done" => frame[c].result = Alone(frame[c])
  /\ \A c1, c2 \in Callers :
       (/\ pc[c1] = "done" /\ pc[c2] = "done"
        /\ frame[c1].fn = frame[c2].fn
        /\ frame[c1].args = frame[c2].args)
       => frame[c1].result = frame[c2].result

C9_Witness ==
  /\ pc[1] = "done"
  /\ pc[2] = "done"
  /\ frame[1].fn = "full_pipeline"
  /\ frame[2].fn = "full_pipeline"
  /\ frame[1].args.rule_id = "unknown_rule"
  /\ frame[2].args = frame[1].args
  /\ frame[1].result.raised = "none"
  /\ frame[1].result.value.rule.id = "custom"

\* the records of the leave type lt, in order
RECURSIVE OfType(_, _)
OfType(records, lt) ==
  IF records = <<>> THEN <<>>
  ELSE IF Head(records).leave_type = lt
       THEN <<Head(records)>> \o OfType(Tail(records), lt)
  ELSE OfType(Tail(records), lt)

\* the minutes of days, hours and minutes with hpd hours a day, minus the
\* minutes of total hours, exactly
MinutesOff(days, hours, minutes, hpd, total) ==
  ExactSub(
    ExactAdd(ExactMul(ExactAdd(ExactMul(ToFloat(days), ToFloat(hpd)),
                               ToFloat(hours)),
                      ToFloat(PyInt(60))),
             ToFloat(minutes)),
    ExactMul(ToFloat(total), ToFloat(PyInt(60))))

\* C10: the days, hours and minutes written for a group are the group's
\* total in normal form: days >= 0, 0 <= hours < hours_per_day,
\* 0 <= minutes <= 59, and within half a minute of the total
C10_Normalized ==
  (IsSummarize /\ ret.raised = "none") =>
    \A i \in 1..Len(ret.value) :
      LET grp == OfType(call.args, ret.value[i].leave_type)
          hpd == grp[1].hours_per_day
          total == total_hours_of(grp)
          days == ret.value[i].sum_d_h_m[1]
          hours == ret.value[i].sum_d_h_m[4]
          minutes == ret.value[i].sum_d_h_m[8]
          off == MinutesOff(days, hours, minutes, hpd, total)
      IN /\ days.n >= 0
         /\ hours.n >= 0
         /\ NumLt(hours, hpd)
         /\ minutes.n >= 0
         /\ minutes.n <= 59
         /\ NumLe(off, FloatHalf)
         /\ NumLe(Neg(FloatHalf), off)
====
